---- MODULE Spec2Model ----
(***************************************************************************)
(* HCLI habit tracker (src/main.py): the HabitTracker document             *)
(* {"habits": {...}, "logs": {...}}, the commands that change it           *)
(* (add, check, delete, fill, reset) and the queries computed from it      *)
(* (streaks, reminder, summary, list_habits, details, dashboard, welcome),  *)
(* the configuration (config), the user file (setup-user,                  *)
(* change-username) and the start of a new process.                        *)
(*                                                                         *)
(* data is the document the HabitTracker of the running process holds in   *)
(* memory, tracker its DATA_FILE, USER_FILE and username, config_data the  *)
(* config_data of the process's ConfigManager, disk the files: config.json,*)
(* the data files and the user files.  pc is where the running process is: *)
(* ready for a command, or waiting at the console.input of load_user,      *)
(* setup_user or change_username.  waiting lists the processes that wait   *)
(* at their prompt while another process runs, in the order they came to   *)
(* wait.                                                                   *)
(*                                                                         *)
(* A datetime is a record [day, sec, us]: the ordinal of its calendar      *)
(* date, the second of the day (0..86399) and the microsecond              *)
(* (0..999999).  An ISO string is the sequence of its fixed-width fields:  *)
(* <<day>> is "YYYY-MM-DD", <<day, sec>> is "YYYY-MM-DDTHH:MM:SS" and      *)
(* <<day, sec, us>> is "YYYY-MM-DDTHH:MM:SS.ffffff".  A Python dict is a   *)
(* sequence of [key, val] entries in insertion order.                      *)
(***************************************************************************)
EXTENDS Integers, Sequences, FiniteSets, TLC

VARIABLES data, now, console, tracker, config_data, disk, pc, waiting

vars == <<data, now, console, tracker, config_data, disk, pc, waiting>>

(***************************************************************************)
(* Bounds of the model.                                                    *)
(***************************************************************************)
\* last calendar day Tick moves the clock to (it starts on day 0)
MaxDay == 0
\* most check-ins the document holds after check, over all habits
MaxCheckins == 2
\* most processes that wait at a prompt at a time
MaxWaiting == 2
\* most check-ins of a document that fill is run on
MaxFillCheckins == 1
\* longest log drawn by InitQuery
MaxLen == 3
\* last calendar day of the timestamps drawn by InitQuery; "today" there
MaxStampDay == 8
\* last calendar day of the histories drawn by InitRun
MaxRunDay == 15
\* longest log drawn by InitRegistry
MaxRegistryLen == 1

Names == {"a", "b"}
Periods == {"daily", "weekly"}
QueryPeriods == {"daily", "weekly", "monthly"}
RegistryNames == {"a", "b", "c"}
\* (second of the day, microsecond) of the timestamps drawn by InitQuery:
\* midnight (a check with --date) and noon (a check without)
StampTimes == {<<0, 0>>, <<43200, 0>>}

(***************************************************************************)
(* datetime                                                                *)
(***************************************************************************)
dt(day, sec, us) == [day |-> day, sec |-> sec, us |-> us]

\* a < b on datetimes
DtLess(a, b) ==
    \/ a.day < b.day
    \/ a.day = b.day /\ a.sec < b.sec
    \/ a.day = b.day /\ a.sec = b.sec /\ a.us < b.us

\* datetime.isoformat(): the microseconds are written only when not 0
isoformat(d) ==
    IF d.us = 0 THEN <<d.day, d.sec>> ELSE <<d.day, d.sec, d.us>>

\* datetime.fromisoformat(s)
fromisoformat(s) ==
    [day |-> s[1], sec |-> s[2], us |-> IF Len(s) >= 3 THEN s[3] ELSE 0]

\* datetime.strptime(date_str, "%Y-%m-%d") raises ValueError unless the
\* string is exactly a date
StrptimeFails(date_str) == Len(date_str) # 1

strptime(date_str) == dt(date_str[1], 0, 0)

\* str.startswith
startswith(s, prefix) ==
    /\ Len(s) >= Len(prefix)
    /\ SubSeq(s, 1, Len(prefix)) = prefix

\* mutant: the difference of the two calendar dates
TimedeltaDays_of_dates(a, b) == a.day - b.day

\* (a - b).days: the difference of two instants in whole days, rounded down
TimedeltaDays(a, b) ==
    IF a.sec < b.sec \/ (a.sec = b.sec /\ a.us < b.us)
    THEN a.day - b.day - 1
    ELSE a.day - b.day

(***************************************************************************)
(* dict                                                                    *)
(***************************************************************************)
Has(d, k) == \E i \in 1..Len(d) : d[i].key = k

Get(d, k) == d[CHOOSE i \in 1..Len(d) : d[i].key = k].val

\* d[k] = v: a new key goes last, an old key keeps its place
Put(d, k, v) ==
    IF Has(d, k)
    THEN [i \in 1..Len(d) |-> IF d[i].key = k THEN [key |-> k, val |-> v] ELSE d[i]]
    ELSE Append(d, [key |-> k, val |-> v])

\* del d[k]
Del(d, k) == SelectSeq(d, LAMBDA e : e.key # k)

EmptyDocument == [habits |-> <<>>, logs |-> <<>>]

(***************************************************************************)
(* console: the last message printed                                       *)
(***************************************************************************)
Out(msg, name, period, str, n, rows) ==
    [msg |-> msg, name |-> name, period |-> period, str |-> str, n |-> n, rows |-> rows]

Msg(msg) == Out(msg, "", "", <<>>, 0, <<>>)

MsgName(msg, name) == Out(msg, name, "", <<>>, 0, <<>>)

(***************************************************************************)
(* HabitTracker.add_habit                                                  *)
(***************************************************************************)
\* not name or not periodicity
MissingArgument(name, periodicity) == name = "" \/ periodicity = ""

\* name in self.data["habits"]
InHabits(d, name) == Has(d.habits, name)

\* add_habit's test: name in self.data["habits"]
NameTaken(d, name) == Has(d.habits, name)

\* self.data["habits"][name] = {"periodicity": ..., "created_at": now}
InsertHabit(d, t, name, periodicity) ==
    [d EXCEPT !.habits =
        Put(@, name, [periodicity |-> periodicity, created_at |-> isoformat(t)])]

\* mutant: the record is written before the name is found taken
RejectTaken_after_writing(d, t, name, periodicity) ==
    [data |-> InsertHabit(d, t, name, periodicity),
     console |-> MsgName("already exists!", name)]

\* the name is taken: print, and return with the document as it is
RejectTaken(d, t, name, periodicity) ==
    [data |-> d, console |-> MsgName("already exists!", name)]

\* the document and the message add_habit(name, periodicity) leaves at time t
AddHabit(d, t, name, periodicity) ==
    IF MissingArgument(name, periodicity)
    THEN [data |-> d, console |-> Msg("Error: Missing 'name' or 'periodicity'.")]
    ELSE IF NameTaken(d, name)
    THEN RejectTaken(d, t, name, periodicity)
    ELSE [data |-> InsertHabit(d, t, name, periodicity),
          console |-> Out("added successfully!", name, periodicity, <<>>, 0, <<>>)]

(***************************************************************************)
(* HabitTracker.check_habit                                                *)
(***************************************************************************)
\* the string logged: the parsed date at midnight, or the current time
LogStr(t, date_str) ==
    IF date_str # <<>> THEN isoformat(strptime(date_str)) ELSE isoformat(t)

\* mutant: a timestamp already in the log is not logged again
AppendLog_once(logs, name, log_str) ==
    IF Has(logs, name)
    THEN IF \E i \in 1..Len(Get(logs, name)) : Get(logs, name)[i] = log_str
         THEN logs
         ELSE Put(logs, name, Append(Get(logs, name), log_str))
    ELSE Put(logs, name, <<log_str>>)

\* if name not in logs: logs[name] = []; logs[name].append(log_str)
AppendLog(logs, name, log_str) ==
    IF Has(logs, name)
    THEN Put(logs, name, Append(Get(logs, name), log_str))
    ELSE Put(logs, name, <<log_str>>)

\* mutant: the log entry of name is created before the date is parsed
RejectDate_after_creating_log(d, name) ==
    [data |-> [d EXCEPT !.logs = IF Has(@, name) THEN @ ELSE Put(@, name, <<>>)],
     console |-> Msg("Invalid date format. Use YYYY-MM-DD.")]

\* except ValueError: print, and return with the document as it is
RejectDate(d, name) ==
    [data |-> d, console |-> Msg("Invalid date format. Use YYYY-MM-DD.")]

\* the document and the message check_habit(name, date_str) leaves at time t
CheckHabit(d, t, name, date_str) ==
    IF ~InHabits(d, name)
    THEN [data |-> d, console |-> MsgName("not found!", name)]
    ELSE IF date_str # <<>> /\ StrptimeFails(date_str)
    THEN RejectDate(d, name)
    ELSE [data |-> [d EXCEPT !.logs = AppendLog(@, name, LogStr(t, date_str))],
          console |-> Out("Checked off", name, Get(d.habits, name).periodicity,
                          LogStr(t, date_str), 0, <<>>)]

\* sum(len(logs) for logs in self.data["logs"].values())
RECURSIVE TotalCheckins(_)
TotalCheckins(logs) ==
    IF logs = <<>> THEN 0 ELSE Len(Head(logs).val) + TotalCheckins(Tail(logs))

(***************************************************************************)
(* HabitTracker.delete_habit                                               *)
(***************************************************************************)
\* the entries a date filter keeps: [dt for dt in logs if not dt.startswith(iso_str)]
KeepEntry(entry, iso_str) == ~startswith(entry, iso_str)

RemoveDated(entries, iso_str) ==
    SelectSeq(entries, LAMBDA e : KeepEntry(e, iso_str))

\* mutant: the log entry is left behind
DeleteEntirely_record_only(d, name) ==
    [habits |-> Del(d.habits, name), logs |-> d.logs]

\* del habits[name]; if name in logs: del logs[name]
DeleteEntirely(d, name) ==
    [habits |-> Del(d.habits, name), logs |-> Del(d.logs, name)]

\* the document and the message delete_habit(name, date_str) leaves
DeleteHabit(d, name, date_str) ==
    IF ~InHabits(d, name)
    THEN [data |-> d, console |-> MsgName("not found!", name)]
    ELSE IF date_str # <<>>
    THEN IF ~Has(d.logs, name)
         THEN [data |-> d, console |-> Msg("No logs for this habit to remove.")]
         ELSE IF StrptimeFails(date_str)
         THEN RejectDate(d, name)
         ELSE LET iso_str == isoformat(strptime(date_str))
                  old == Get(d.logs, name)
                  new == RemoveDated(old, iso_str)
              IN  [data |-> [d EXCEPT !.logs = Put(@, name, new)],
                   console |-> Out("Removed", name, "", date_str,
                                   Len(old) - Len(new), <<>>)]
    ELSE [data |-> DeleteEntirely(d, name),
          console |-> MsgName("deleted entirely.", name)]

(***************************************************************************)
(* HabitTracker.streaks                                                    *)
(***************************************************************************)
\* sorted(..., reverse=True) by insertion: s is sorted, x goes before the
\* first entry that is less than x
RECURSIVE InsertDesc(_, _)
InsertDesc(s, x) ==
    IF s = <<>> THEN <<x>>
    ELSE IF DtLess(Head(s), x) THEN <<x>> \o s
    ELSE <<Head(s)>> \o InsertDesc(Tail(s), x)

RECURSIVE SortedDesc(_)
SortedDesc(s) ==
    IF s = <<>> THEN <<>>
    ELSE InsertDesc(SortedDesc(SubSeq(s, 1, Len(s) - 1)), s[Len(s)])

\* sorted([datetime.fromisoformat(log) for log in logs], reverse=True)
SortedLogs(entries) ==
    SortedDesc([i \in 1..Len(entries) |-> fromisoformat(entries[i])])

\* mutant: diff <= 1
DailyContinues_up_to_1(period, diff) == period = "daily" /\ diff <= 1

\* period == "daily" and diff == 1
DailyContinues(period, diff) == period = "daily" /\ diff = 1

\* mutant: diff < 7
WeeklyContinues_below_7(period, diff) == period = "weekly" /\ diff < 7

\* period == "weekly" and diff <= 7
WeeklyContinues(period, diff) == period = "weekly" /\ diff <= 7

\* mutant: a gap that ends the run is stepped over, and the walk goes on
RECURSIVE Walk_past_gaps(_, _, _, _)
Walk_past_gaps(period, sorted_logs, i, streak) ==
    IF i > Len(sorted_logs) THEN streak
    ELSE LET diff == TimedeltaDays(sorted_logs[i - 1], sorted_logs[i])
         IN  IF DailyContinues(period, diff) \/ WeeklyContinues(period, diff)
             THEN Walk_past_gaps(period, sorted_logs, i + 1, streak + 1)
             ELSE Walk_past_gaps(period, sorted_logs, i + 1, streak)

\* the loop over sorted_logs[1:], at index i with the streak so far;
\* prev_date is the entry before i
RECURSIVE Walk(_, _, _, _)
Walk(period, sorted_logs, i, streak) ==
    IF i > Len(sorted_logs) THEN streak
    ELSE LET diff == TimedeltaDays(sorted_logs[i - 1], sorted_logs[i])
         IN  IF DailyContinues(period, diff) \/ WeeklyContinues(period, diff)
             THEN Walk(period, sorted_logs, i + 1, streak + 1)
             ELSE streak

\* the streak of one habit's log: 0 for an empty log, else the walk from 1
Streak(period, entries) ==
    IF entries = <<>> THEN 0 ELSE Walk(period, SortedLogs(entries), 2, 1)

\* the loop over self.data["logs"].items() from entry i on: the rows of the
\* table, longest_streak and best_habit ("" stands for None)
RECURSIVE StreakLoop(_, _, _, _, _)
StreakLoop(d, i, rows, longest_streak, best_habit) ==
    IF i > Len(d.logs)
    THEN Out("Habit Streaks", best_habit, "", <<>>, longest_streak, rows)
    ELSE LET name == d.logs[i].key
             logs == d.logs[i].val
         IN  IF ~InHabits(d, name)
             THEN StreakLoop(d, i + 1, rows, longest_streak, best_habit)
             ELSE LET period == Get(d.habits, name).periodicity
                      streak == Streak(period, logs)
                      row == [name |-> name, period |-> period, streak |-> streak]
                  IN  IF streak > longest_streak
                      THEN StreakLoop(d, i + 1, Append(rows, row), streak, name)
                      ELSE StreakLoop(d, i + 1, Append(rows, row),
                                      longest_streak, best_habit)

StreaksReport(d) == StreakLoop(d, 1, <<>>, 0, "")

(***************************************************************************)
(* HabitTracker.get_pending_habits, HabitTracker.reminder                  *)
(***************************************************************************)
\* last_logged = datetime.fromisoformat(logs[-1]).date()
LastLogged(entries) == fromisoformat(entries[Len(entries)]).day

\* period == "daily" and last_logged < today
DailyPending(period, last_logged, today) ==
    period = "daily" /\ last_logged < today

\* period == "weekly" and (today - last_logged).days > 7
WeeklyPending(period, last_logged, today) ==
    period = "weekly" /\ today - last_logged > 7

\* mutant: an empty log is not pending
IsPending_unless_empty_log(d, t, h) ==
    IF ~Has(d.logs, h.key) THEN TRUE
    ELSE IF Get(d.logs, h.key) = <<>> THEN FALSE
    ELSE \/ DailyPending(h.val.periodicity, LastLogged(Get(d.logs, h.key)), t.day)
         \/ WeeklyPending(h.val.periodicity, LastLogged(Get(d.logs, h.key)), t.day)

\* whether the loop appends the habit of registry entry h
IsPending(d, t, h) ==
    IF ~Has(d.logs, h.key) THEN TRUE
    ELSE IF Get(d.logs, h.key) = <<>> THEN TRUE
    ELSE \/ DailyPending(h.val.periodicity, LastLogged(Get(d.logs, h.key)), t.day)
         \/ WeeklyPending(h.val.periodicity, LastLogged(Get(d.logs, h.key)), t.day)

\* pending_list: (habit, period) in the order of the registry
get_pending_habits(d, t) ==
    LET sel == SelectSeq(d.habits, LAMBDA h : IsPending(d, t, h))
    IN  [i \in 1..Len(sel) |-> <<sel[i].key, sel[i].val.periodicity>>]

ReminderReport(d, t) ==
    LET pending_list == get_pending_habits(d, t)
    IN  IF pending_list # <<>>
        THEN Out("You have pending habits to complete!", "", "", <<>>, 0, pending_list)
        ELSE Msg("All habits are up to date!")

(***************************************************************************)
(* HabitTracker.calc_30days_checkins, HabitTracker.summary                 *)
(***************************************************************************)
\* timedelta(days=30)
ThirtyDays == 30

\* t - timedelta(days=n)
MinusDays(t, n) == [t EXCEPT !.day = @ - n]

\* dt >= thirty_days_ago
InLast30Days(log, thirty_days_ago) ==
    ~DtLess(fromisoformat(log), thirty_days_ago)

\* count_30 of name at time t; data["logs"].get(name, []) is [] without entry
calc_30days_checkins(d, t, name) ==
    LET logs == IF Has(d.logs, name) THEN Get(d.logs, name) ELSE <<>>
        thirty_days_ago == MinusDays(t, ThirtyDays)
    IN  Len(SelectSeq(logs, LAMBDA log : InLast30Days(log, thirty_days_ago)))

\* struggle_list before the sort: (habit, checks_30) in the order of the
\* registry.  calc_30days_checkins reads datetime.now() anew in each call:
\* clock[i] is the reading of the call for the i-th habit
StruggleList(d, clock) ==
    [i \in 1..Len(d.habits) |->
        <<d.habits[i].key, calc_30days_checkins(d, clock[i], d.habits[i].key)>>]

\* list.sort(key=lambda x: x[1]) is stable: x goes after every entry whose
\* count is not greater
RECURSIVE InsertByCount(_, _)
InsertByCount(s, x) ==
    IF s = <<>> THEN <<x>>
    ELSE IF x[2] < Head(s)[2] THEN <<x>> \o s
    ELSE <<Head(s)>> \o InsertByCount(Tail(s), x)

RECURSIVE SortedByCount(_)
SortedByCount(s) ==
    IF s = <<>> THEN <<>>
    ELSE InsertByCount(SortedByCount(SubSeq(s, 1, Len(s) - 1)), s[Len(s)])

\* min_checkin = struggle_list[0][1];
\* [s for s in struggle_list if s[1] == min_checkin], on the sorted list
StruggledHabits(struggle_list) ==
    LET min_checkin == struggle_list[1][2]
    IN  SelectSeq(struggle_list, LAMBDA s : s[2] = min_checkin)

\* [h for h, d in habits.items() if d.get("periodicity") == "daily"]
DailyList(d) ==
    LET sel == SelectSeq(d.habits, LAMBDA h : h.val.periodicity = "daily")
    IN  [i \in 1..Len(sel) |-> sel[i].key]

\* what summary prints: n is total_habits, rows is struggled_habits (empty
\* when there is no habit to analyze).  clock holds the readings of
\* datetime.now() the command takes, in order: clock[1] is that of
\* get_pending_habits, clock[1 + i] that of calc_30days_checkins for the
\* i-th habit
SummaryReport(d, clock) ==
    [msg |-> "Habit Tracker Summary", name |-> "", period |-> "", str |-> <<>>,
     n |-> Len(d.habits),
     rows |-> IF Len(d.habits) > 0
              THEN StruggledHabits(SortedByCount(StruggleList(d, Tail(clock))))
              ELSE <<>>,
     total_checkins |-> TotalCheckins(d.logs),
     pending_habits |-> get_pending_habits(d, clock[1]),
     daily_list |-> DailyList(d)]

(***************************************************************************)
(* HabitTracker.fill_data                                                  *)
(***************************************************************************)
SampleHabits ==
    <<<<"Workout", "daily">>, <<"ReadBook", "daily">>, <<"WaterPlants", "daily">>,
      <<"GuitarPractice", "daily">>, <<"WeeklyGrocery", "weekly">>,
      <<"PayBills", "weekly">>>>

\* most habits one fill_data goes over, and most readings of datetime.now()
\* it takes: one for each sample habit it creates, one for each habit it fills
FillHabits == Len(SampleHabits) + Cardinality(Names)
FillReadings == Len(SampleHabits) + FillHabits

\* the draws of one fill_data that are followed.  random_days[i] is the
\* value of random.randint(10, 30) for the i-th habit of the registry and
\* day_offset[i][k] the value of random.randint(1, 60) for its k-th
\* check-in.  LeastDraws: every draw is the least of its range.
\* VariedDraws: the counts go over 10..30, 30 first, and the offsets over
\* 1..60.
LeastDraws ==
    [random_days |-> [i \in 1..FillHabits |-> 10],
     day_offset |-> [i \in 1..FillHabits |-> [k \in 1..30 |-> 1]]]

VariedDraws ==
    [random_days |-> [i \in 1..FillHabits |-> 10 + ((20 * i) % 21)],
     day_offset |-> [i \in 1..FillHabits |-> [k \in 1..30 |-> 1 + ((i + 13 * k) % 60)]]]

RandomDraws == {LeastDraws, VariedDraws}

\* mutant: the log entry is created, the record is not
AddSample_log_only(d, t, habit_name, period) ==
    IF Has(d.logs, habit_name) THEN d
    ELSE [d EXCEPT !.logs = Put(@, habit_name, <<>>)]

\* one pass of "Add sample habits if not present"; t is datetime.now(),
\* read when the record is created
AddSample(d, t, habit_name, period) ==
    LET with_record == IF InHabits(d, habit_name) THEN d
                       ELSE InsertHabit(d, t, habit_name, period)
    IN  IF Has(with_record.logs, habit_name) THEN with_record
        ELSE [with_record EXCEPT !.logs = Put(@, habit_name, <<>>)]

\* the loop over sample_habits from entry i on; clock holds the readings of
\* datetime.now() in order, read of them have been taken
RECURSIVE AddSamples(_, _, _, _)
AddSamples(d, clock, read, i) ==
    IF i > Len(SampleHabits) THEN [data |-> d, read |-> read]
    ELSE LET habit_name == SampleHabits[i][1]
         IN  AddSamples(AddSample(d, clock[read + 1], habit_name, SampleHabits[i][2]),
                        clock,
                        IF InHabits(d, habit_name) THEN read ELSE read + 1,
                        i + 1)

\* the loop over data["habits"].items() from entry i on: base_date is a
\* new reading of the clock, random_days[i] check-ins are appended to the
\* log of the habit, the k-th of them day_offset[i][k] days before
\* base_date; data["logs"][habit_name] raises KeyError for a habit that has
\* no log entry, and the loop is left with what it has appended so far
RECURSIVE FillLoop(_, _, _, _, _, _)
FillLoop(d, clock, read, i, random_days, day_offset) ==
    IF i > Len(d.habits) THEN [data |-> d, raised |-> "", read |-> read]
    ELSE LET habit_name == d.habits[i].key
             base_date == clock[read + 1]
             log_strs == [k \in 1..random_days[i] |->
                             isoformat(MinusDays(base_date, day_offset[i][k]))]
         IN  IF ~Has(d.logs, habit_name)
             THEN [data |-> d, raised |-> habit_name, read |-> read + 1]
             ELSE FillLoop(
                      [d EXCEPT !.logs =
                          Put(@, habit_name, Get(@, habit_name) \o log_strs)],
                      clock, read + 1, i + 1, random_days, day_offset)

\* the document in memory, the message and the last reading of the clock
\* fill_data leaves
FillData(d, clock, random_days, day_offset) ==
    LET samples == AddSamples(d, clock, 0, 1)
        r == FillLoop(samples.data, clock, samples.read, 1, random_days, day_offset)
    IN  [data |-> r.data,
         console |-> IF r.raised # ""
                     THEN MsgName("Error filling data:", r.raised)
                     ELSE Msg("Fake data added successfully (covering ~2 months)! Now you can test functionalities."),
         now |-> clock[r.read]]

(***************************************************************************)
(* The files.  A path is <<directory, file name>>; the file names given to *)
(* config are bare names, so that os.path.isabs is false of them and       *)
(* os.path.basename leaves them as they are.  The data files, and the user *)
(* files, are a function from the paths of the files that exist to their   *)
(* contents: a document, a username.  config.json is NoFile when it does   *)
(* not exist, and <<content>> when it does.                                *)
(***************************************************************************)
NoFile == <<>>

\* no file
NoFiles == [path \in {} |-> NoFile]

\* os.path.exists(path)
Exists(files, path) == path \in DOMAIN files

\* the files after content is written to path
Write(files, path, content) ==
    [q \in DOMAIN files \cup {path} |-> IF q = path THEN content ELSE files[q]]

\* os.getcwd(), and the directory a relative name is looked up in
Cwd == "cwd"

Dirs == {Cwd, "elsewhere"}
DataFiles == {"habits.json", "other.json"}
UserFiles == {"user.json", "me.json"}

\* a directory exists when it is the working directory or holds a file
DirExists(dk, dir) ==
    \/ dir = Cwd
    \/ \E path \in DOMAIN dk.data \cup DOMAIN dk.user : path[1] = dir

(***************************************************************************)
(* ConfigManager                                                           *)
(***************************************************************************)
\* config_data as __init__ sets it
DefaultConfig ==
    [rootPath |-> "", data_file |-> "habits.json", user_file |-> "user.json"]

\* ensure_config: config.json is created, with the root path alone, when it
\* does not exist
EnsureConfig(dk) ==
    IF dk.config # NoFile THEN dk
    ELSE [dk EXCEPT !.config = <<<<[key |-> "rootPath", val |-> Cwd]>>>>]

\* load_config: the keys config.json has replace the defaults
LoadConfig(dk) ==
    IF dk.config = NoFile THEN DefaultConfig
    ELSE LET file_conf == dk.config[1]
             value(k) == IF Has(file_conf, k) THEN Get(file_conf, k)
                         ELSE DefaultConfig[k]
         IN  [rootPath |-> value("rootPath"),
              data_file |-> value("data_file"),
              user_file |-> value("user_file")]

\* save_config: json.dump(self.config_data)
SaveConfig(dk, cfg) ==
    [dk EXCEPT !.config =
        <<<<[key |-> "rootPath", val |-> cfg.rootPath],
            [key |-> "data_file", val |-> cfg.data_file],
            [key |-> "user_file", val |-> cfg.user_file]>>>>]

set_root_path(dk, cfg, path) ==
    LET c == [cfg EXCEPT !.rootPath = path]
    IN  [config_data |-> c, disk |-> SaveConfig(dk, c)]

set_data_file(dk, cfg, path) ==
    LET c == [cfg EXCEPT !.data_file = path]
    IN  [config_data |-> c, disk |-> SaveConfig(dk, c)]

set_user_file(dk, cfg, path) ==
    LET c == [cfg EXCEPT !.user_file = path]
    IN  [config_data |-> c, disk |-> SaveConfig(dk, c)]

\* config_command: what it leaves and prints.  An option that is not given
\* is "".  shown is what --show prints, the configuration before the
\* changes; updated lists the "... updated to ..." lines
ConfigCommand(dk, cfg, show, data_file, user_file, root_path) ==
    LET s0 == [config_data |-> cfg, disk |-> dk]
        s1 == IF data_file # "" THEN set_data_file(s0.disk, s0.config_data, data_file)
              ELSE s0
        s2 == IF user_file # "" THEN set_user_file(s1.disk, s1.config_data, user_file)
              ELSE s1
        s3 == IF root_path # "" THEN set_root_path(s2.disk, s2.config_data, root_path)
              ELSE s2
        updated ==
            (IF data_file # "" THEN <<<<"Data file updated to", data_file>>>> ELSE <<>>)
            \o (IF user_file # "" THEN <<<<"User file updated to", user_file>>>> ELSE <<>>)
            \o (IF root_path # "" THEN <<<<"Root path updated to", root_path>>>> ELSE <<>>)
    IN  [config_data |-> s3.config_data,
         disk |-> s3.disk,
         console |->
            [msg |-> IF show \/ updated # <<>>
                     THEN "Please re-run the application so changes take effect."
                     ELSE "",
             name |-> "", period |-> "", str |-> <<>>, n |-> 0, rows |-> updated,
             shown |-> IF show THEN <<cfg>> ELSE <<>>]]

(***************************************************************************)
(* The user file and the construction of a HabitTracker                    *)
(***************************************************************************)
\* the value None of self.username; a username s is <<s>>
None == <<>>

\* the lines typed at a prompt
InputLines == {"u", " u ", ""}

\* what console.input gives: <<>> when it raises (no input to read), <<s>>
\* when the line s is typed
Prompted == {<<>>} \cup {<<line>> : line \in InputLines}

\* str.strip of a line of InputLines
Strip(line) == IF line = " u " THEN "u" ELSE line

\* what setup_user and the construction print up to the prompt
SetupOut(msg, name, config_created) ==
    [msg |-> msg, name |-> name, period |-> "", str |-> <<>>, n |-> 0,
     rows |-> <<>>, config_created |-> config_created]

\* the prompts of console.input
UsernamePrompt ==
    "Enter a username to set up or change the existing username in HCLI:"

NewUsernamePrompt == "Enter a new username:"

\* setup_user up to console.input: config.json is ensured; nothing more
\* when the user file exists (asks is FALSE); else the username is asked for
SetupUserBegin(dk, USER_FILE) ==
    LET asks == ~Exists(dk.user, USER_FILE)
    IN  [disk |-> EnsureConfig(dk),
         asks |-> asks,
         console |-> SetupOut(IF asks THEN UsernamePrompt ELSE "", "",
                              dk.config = NoFile)]

\* setup_user from console.input on, with the files as they are by then:
\* the directory is made and the username written, over a user file that
\* has been written meanwhile
SetupUserEnd(dk, USER_FILE, typed) ==
    IF typed = <<>>
    THEN [disk |-> dk, console |-> Msg("Error setting up user:")]
    ELSE [disk |-> [dk EXCEPT !.user = Write(@, USER_FILE, typed[1])],
          console |-> MsgName("has been set successfully!", typed[1])]

\* change-username from console.input on: the line typed, stripped, is
\* written to the user file; open fails when the directory of the file does
\* not exist
ChangeUsername(dk, USER_FILE, typed) ==
    IF typed = <<>>
    THEN [disk |-> dk, console |-> Msg("Error changing username:")]
    ELSE IF Strip(typed[1]) = ""
    THEN [disk |-> dk, console |-> Msg("Error: Username cannot be empty!")]
    ELSE IF ~DirExists(dk, USER_FILE[1])
    THEN [disk |-> dk, console |-> Msg("Error changing username:")]
    ELSE [disk |-> [dk EXCEPT !.user = Write(@, USER_FILE, Strip(typed[1]))],
          console |-> MsgName("Username changed successfully to", Strip(typed[1]))]

\* os.path.join(root, os.path.basename(file)) when root is set, else the
\* file, looked up in the working directory
Path(root, file) == <<IF root = "" THEN Cwd ELSE root, file>>

\* load_data
LoadData(dk, DATA_FILE) ==
    IF Exists(dk.data, DATA_FILE) THEN dk.data[DATA_FILE] ELSE EmptyDocument

\* save_data: the directory is made when it is missing
SaveData(dk, DATA_FILE, d) == [dk EXCEPT !.data = Write(@, DATA_FILE, d)]

\* HabitTracker(config_manager) with the configuration cfg, up to the end
\* of __init__ or to the console.input of setup_user: the tracker, its
\* document (loaded before the user file is looked at), the files and what
\* is printed.  load_user calls setup_user when there is no user file, and
\* gives None then: pc is "load_user", the process waits at the prompt
NewHabitTracker(dk, cfg) ==
    LET DATA_FILE == Path(cfg.rootPath, cfg.data_file)
        USER_FILE == Path(cfg.rootPath, cfg.user_file)
        found == Exists(dk.user, USER_FILE)
        setup == SetupUserBegin(dk, USER_FILE)
    IN  [tracker |-> [DATA_FILE |-> DATA_FILE, USER_FILE |-> USER_FILE,
                      username |-> IF found THEN <<dk.user[USER_FILE]>> ELSE None],
         data |-> LoadData(dk, DATA_FILE),
         disk |-> IF found THEN dk ELSE setup.disk,
         console |-> IF found THEN SetupOut("", "", FALSE) ELSE setup.console,
         pc |-> IF found THEN "ready" ELSE "load_user"]

(***************************************************************************)
(* intro, show_welcome_message, list_habits_cmd, dashboard, details        *)
(***************************************************************************)
Intro == Msg("Welcome to the HCLI!")

\* show_welcome_message: with a username, the welcome, then summary, then
\* reminder; clock holds the readings of datetime.now() of the two
ShowWelcomeMessage(d, username, clock) ==
    IF username # None /\ username[1] # ""
    THEN [msg |-> "Welcome back", name |-> username[1], period |-> "",
          str |-> <<>>, n |-> 0, rows |-> <<>>,
          summary |-> SummaryReport(d, SubSeq(clock, 1, Len(d.habits) + 1)),
          reminder |-> ReminderReport(d, clock[Len(d.habits) + 2])]
    ELSE Msg("Welcome to HCLI!")

\* the rows of the table "Tracked Habits"
ListHabits(d) ==
    Out("Tracked Habits", "", "", <<>>, 0,
        [i \in 1..Len(d.habits) |->
            <<d.habits[i].key, d.habits[i].val.periodicity,
              d.habits[i].val.created_at>>])

\* max(checkins)
RECURSIVE MaxCheckin(_)
MaxCheckin(checkins) ==
    IF Len(checkins) = 1 THEN checkins[1]
    ELSE LET m == MaxCheckin(Tail(checkins))
         IN  IF checkins[1] >= m THEN checkins[1] ELSE m

\* int((c / max_checkins) * 40); the float product, truncated, is the
\* integer quotient for the counts of 0..199
BarLen(c, max_checkins) == (c * 40) \div max_checkins

\* dashboard: plots is whether matplotlib can be imported and shows the chart
Dashboard(d, ascii_mode, plots) ==
    LET checkins == [i \in 1..Len(d.logs) |-> Len(d.logs[i].val)]
    IN  IF d.logs = <<>>
        THEN Msg("No habit logs to display on dashboard.")
        ELSE IF ascii_mode
        THEN IF MaxCheckin(checkins) = 0
             THEN Msg("No check-ins to display in ASCII dashboard.")
             ELSE Out("ASCII Dashboard Overview", "", "", <<>>, 0,
                      [i \in 1..Len(d.logs) |->
                          <<d.logs[i].key, checkins[i],
                            BarLen(checkins[i], MaxCheckin(checkins))>>])
        ELSE IF plots
        THEN Out("Habit Progress Overview", "", "", <<>>, 0,
                 [i \in 1..Len(d.logs) |-> <<d.logs[i].key, checkins[i]>>])
        ELSE Msg("Error displaying dashboard:")

\* details: last_checked is <<logs[-1]>>, or <<>>, printed as "Never"
Details(d, name) ==
    IF ~InHabits(d, name) THEN MsgName("not found!", name)
    ELSE LET logs == IF Has(d.logs, name) THEN Get(d.logs, name) ELSE <<>>
         IN  [msg |-> "Habit:", name |-> name,
              period |-> Get(d.habits, name).periodicity,
              str |-> <<>>, n |-> Len(logs), rows |-> <<>>,
              last_checked |-> IF logs # <<>> THEN <<logs[Len(logs)]>> ELSE <<>>]

(***************************************************************************)
(* The commands as steps                                                   *)
(***************************************************************************)
\* the --date values tried: none, two dates, and a date with a time (malformed)
DateArgs == {<<>>, <<0>>, <<1>>, <<0, 0>>}

\* the clock's readings: half a second after midnight of day 0, then noon
\* of every day
Instants == {dt(0, 0, 500000)} \cup {dt(d, 43200, 0) : d \in 0..MaxDay}

\* the process is between two commands: it takes the next one
Ready == pc = "ready"

\* the command reads and prints only
Kept == UNCHANGED <<tracker, config_data, disk, pc, waiting>>

\* the command calls save_data when saved holds
SavedIf(saved) ==
    /\ disk' = IF saved THEN SaveData(disk, tracker.DATA_FILE, data') ELSE disk
    /\ UNCHANGED <<tracker, config_data, pc, waiting>>

add_habit ==
    \E name \in Names \cup {""}, periodicity \in Periods \cup {""} :
        LET r == AddHabit(data, now, name, periodicity)
        IN  /\ Ready
            /\ data' = r.data
            /\ console' = r.console
            /\ SavedIf(r.console.msg = "added successfully!")
            /\ UNCHANGED now

check_habit ==
    \E name \in Names, date_str \in DateArgs :
        LET r == CheckHabit(data, now, name, date_str)
        IN  /\ Ready
            /\ TotalCheckins(r.data.logs) <= MaxCheckins
            /\ data' = r.data
            /\ console' = r.console
            /\ SavedIf(r.console.msg = "Checked off")
            /\ UNCHANGED now

delete_habit ==
    \E name \in Names, date_str \in DateArgs :
        LET r == DeleteHabit(data, name, date_str)
        IN  /\ Ready
            /\ data' = r.data
            /\ console' = r.console
            /\ SavedIf(r.console.msg \in {"Removed", "deleted entirely."})
            /\ UNCHANGED now

streaks ==
    /\ Ready
    /\ console' = StreaksReport(data)
    /\ UNCHANGED <<data, now>>
    /\ Kept

reminder ==
    /\ Ready
    /\ console' = ReminderReport(data, now)
    /\ UNCHANGED <<data, now>>
    /\ Kept

\* the readings of a clock read k times from the instant t on: each is one
\* of instants, none is before the one before it
ClockReadings(t, k, instants) ==
    {clock \in [1..k -> {u \in instants : ~DtLess(u, t)}] :
        \A j \in 1..(k - 1) : ~DtLess(clock[j + 1], clock[j])}

\* the instants summary reads the clock at: noon of day ThirtyDays, or a
\* microsecond later
SummaryInstants == {dt(ThirtyDays, 43200, 0), dt(ThirtyDays, 43200, 1)}

summary ==
    \E clock \in ClockReadings(now, Len(data.habits) + 1, SummaryInstants) :
        /\ Ready
        /\ console' = SummaryReport(data, clock)
        /\ now' = clock[Len(clock)]
        /\ UNCHANGED data
        /\ Kept

\* the instants fill reads the clock at: half a second after midnight of
\* day 0, or seven microseconds later
FillInstants == {dt(0, 0, 500000), dt(0, 0, 500007)}

\* the clocks of one fill that are followed: the first reading is t, the
\* later ones are all t or all a later instant of FillInstants
FillClocks(t) ==
    {[j \in 1..FillReadings |-> IF j = 1 THEN t ELSE u] :
        u \in {u \in FillInstants : ~DtLess(u, t)}}

\* fill, on a document of at most MaxFillCheckins check-ins, while the clock
\* is before the last of FillInstants.  When fill_data raises, save_data is
\* not reached: the process goes on with the document it has in memory, and
\* the file is as it was.
fill ==
    \E draw \in RandomDraws, clock \in FillClocks(now) :
        LET r == FillData(data, clock, draw.random_days, draw.day_offset)
        IN  /\ Ready
            /\ TotalCheckins(data.logs) <= MaxFillCheckins
            /\ \E u \in FillInstants : DtLess(now, u)
            /\ console' = r.console
            /\ data' = r.data
            /\ SavedIf(r.console.msg # "Error filling data:")
            /\ now' = r.now

reset_all ==
    /\ Ready
    /\ data' = EmptyDocument
    /\ console' = Msg("System has been reset. All habits and logs removed.")
    /\ SavedIf(TRUE)
    /\ UNCHANGED now

intro ==
    /\ Ready
    /\ console' = Intro
    /\ UNCHANGED <<data, now>>
    /\ Kept

\* welcome: summary and reminder read the clock, when there is a username
welcome ==
    /\ Ready
    /\ IF tracker.username # None /\ tracker.username[1] # ""
       THEN \E clock \in ClockReadings(now, Len(data.habits) + 2, SummaryInstants) :
                /\ console' = ShowWelcomeMessage(data, tracker.username, clock)
                /\ now' = clock[Len(clock)]
       ELSE /\ console' = ShowWelcomeMessage(data, tracker.username, <<>>)
            /\ now' = now
    /\ UNCHANGED data
    /\ Kept

list_habits_cmd ==
    /\ Ready
    /\ console' = ListHabits(data)
    /\ UNCHANGED <<data, now>>
    /\ Kept

dashboard ==
    \E ascii_mode \in BOOLEAN, plots \in BOOLEAN :
        /\ Ready
        /\ console' = Dashboard(data, ascii_mode, plots)
        /\ UNCHANGED <<data, now>>
        /\ Kept

details ==
    \E name \in Names \cup {SampleHabits[1][1]} :
        /\ Ready
        /\ console' = Details(data, name)
        /\ UNCHANGED <<data, now>>
        /\ Kept

\* setup-user, up to the return or to the prompt
setup_user ==
    LET r == SetupUserBegin(disk, tracker.USER_FILE)
    IN  /\ Ready
        /\ disk' = r.disk
        /\ console' = r.console
        /\ pc' = IF r.asks THEN "setup_user" ELSE "ready"
        /\ UNCHANGED <<data, now, tracker, config_data, waiting>>

\* change-username, up to the prompt
change_username ==
    /\ Ready
    /\ console' = Msg(NewUsernamePrompt)
    /\ pc' = "change_username"
    /\ UNCHANGED <<data, now, tracker, config_data, disk, waiting>>

\* config: the running process keeps its tracker and its document
config_command ==
    \E show \in BOOLEAN, data_file \in DataFiles \cup {""},
       user_file \in UserFiles \cup {""}, root_path \in Dirs \cup {""} :
        LET r == ConfigCommand(disk, config_data, show, data_file, user_file, root_path)
        IN  /\ Ready
            /\ config_data' = r.config_data
            /\ disk' = r.disk
            /\ console' = r.console
            /\ UNCHANGED <<data, now, tracker, pc, waiting>>

\* the running process
Running ==
    [data |-> data, tracker |-> tracker, config_data |-> config_data, pc |-> pc]

\* the processes at a prompt, the running one the last of them when it waits
AtPrompt == IF Ready THEN waiting ELSE Append(waiting, Running)

\* the sequence s without its j-th element
Without(s, j) == [k \in 1..(Len(s) - 1) |-> IF k < j THEN s[k] ELSE s[k + 1]]

\* the application is run again: a new process loads the configuration and
\* constructs its HabitTracker, up to the end of __init__ or to the prompt
\* of load_user.  The process that ran before has ended, or waits at its
\* prompt
run ==
    LET cfg == LoadConfig(disk)
        r == NewHabitTracker(disk, cfg)
    IN  /\ Len(AtPrompt) + (IF r.pc = "ready" THEN 0 ELSE 1) <= MaxWaiting
        /\ waiting' = AtPrompt
        /\ config_data' = cfg
        /\ tracker' = r.tracker
        /\ data' = r.data
        /\ disk' = r.disk
        /\ console' = r.console
        /\ pc' = r.pc
        /\ UNCHANGED now

\* what the process p does from its console.input on
Answer(dk, p, typed) ==
    IF p.pc = "change_username"
    THEN ChangeUsername(dk, p.tracker.USER_FILE, typed)
    ELSE SetupUserEnd(dk, p.tracker.USER_FILE, typed)

\* console.input of a process at its prompt returns the line typed, or
\* raises: the process goes on with the files as they are now, and with the
\* document it had loaded before it asked; it is the running process from
\* here on
answer ==
    \E j \in 1..Len(AtPrompt), typed \in Prompted :
        LET p == AtPrompt[j]
            r == Answer(disk, p, typed)
        IN  /\ disk' = r.disk
            /\ console' = r.console
            /\ data' = p.data
            /\ tracker' = p.tracker
            /\ config_data' = p.config_data
            /\ pc' = "ready"
            /\ waiting' = Without(AtPrompt, j)
            /\ UNCHANGED now

\* time passes between two commands
Tick ==
    /\ \E t \in Instants : DtLess(now, t) /\ now' = t
    /\ UNCHANGED <<data, console>>
    /\ Kept

\* the empty directory: no file
NoDisk ==
    [config |-> NoFile, data |-> NoFiles, user |-> NoFiles]

\* the first process run in an empty directory, half a second after
\* midnight of day 0: it has written config.json and waits at the prompt
\* of load_user
Init ==
    LET r == NewHabitTracker(NoDisk, LoadConfig(NoDisk))
    IN  /\ config_data = LoadConfig(NoDisk)
        /\ tracker = r.tracker
        /\ data = r.data
        /\ disk = r.disk
        /\ console = r.console
        /\ pc = r.pc
        /\ waiting = <<>>
        /\ now = dt(0, 0, 500000)

\* every command of app, the start of a new process, the answer to a
\* prompt, and the clock
Next ==
    \/ add_habit
    \/ check_habit
    \/ delete_habit
    \/ streaks
    \/ reminder
    \/ summary
    \/ fill
    \/ reset_all
    \/ intro
    \/ welcome
    \/ list_habits_cmd
    \/ dashboard
    \/ details
    \/ setup_user
    \/ change_username
    \/ config_command
    \/ run
    \/ answer
    \/ Tick

Spec == Init /\ [][Next]_vars

(***************************************************************************)
(* The specifications the claims are checked under follow some of the      *)
(* commands, in one process that was started in a directory set up before: *)
(* config.json as ensure_config wrote it, the user file of user "u", and   *)
(* the data file holding the document the process has loaded (no data file *)
(* for the empty document).                                                *)
(***************************************************************************)
SetUpDisk(d) ==
    LET dk == [EnsureConfig(NoDisk) EXCEPT !.user = Write(@, <<Cwd, "user.json">>, "u")]
    IN  IF d = EmptyDocument THEN dk
        ELSE SaveData(dk, <<Cwd, "habits.json">>, d)

\* the process has loaded the document data
Loaded ==
    LET dk == SetUpDisk(data)
        r == NewHabitTracker(dk, LoadConfig(dk))
    IN  /\ config_data = LoadConfig(dk)
        /\ tracker = r.tracker
        /\ disk = r.disk
        /\ pc = r.pc
        /\ waiting = <<>>
        /\ console = Msg("")

InitCommands ==
    /\ data = EmptyDocument
    /\ now = dt(0, 0, 500000)
    /\ Loaded

\* the commands that change the document: add, check, delete and reset, and
\* the clock
NextCommands ==
    \/ add_habit
    \/ check_habit
    \/ delete_habit
    \/ reset_all
    \/ Tick

SpecCommands == InitCommands /\ [][NextCommands]_vars

\* the same with the reports streaks and reminder
NextReports ==
    \/ add_habit
    \/ check_habit
    \/ delete_habit
    \/ streaks
    \/ reminder
    \/ reset_all
    \/ Tick

SpecReports == InitCommands /\ [][NextReports]_vars

(***************************************************************************)
(* The queries on a document drawn from bounded sets: one habit "a" of any *)
(* periodicity, with no log entry or with a log of up to MaxLen            *)
(* timestamps of days 0..MaxStampDay, read on day MaxStampDay at noon.     *)
(* Entries at midnight come from check --date and may be logged in any     *)
(* order; entries at noon come from the clock, so they are logged in       *)
(* time order.                                                             *)
(***************************************************************************)
QueryStamps ==
    {isoformat(dt(d, tod[1], tod[2])) : d \in 0..MaxStampDay, tod \in StampTimes}

ClockOrdered(entries) ==
    \A i, j \in 1..Len(entries) :
        (i < j /\ entries[i][2] # 0 /\ entries[j][2] # 0)
            => ~DtLess(fromisoformat(entries[j]), fromisoformat(entries[i]))

QueryLogs ==
    {entries \in UNION {[1..k -> QueryStamps] : k \in 0..MaxLen} :
        ClockOrdered(entries)}

QueryHabit(p) ==
    <<[key |-> "a", val |-> [periodicity |-> p, created_at |-> isoformat(dt(0, 0, 0))]]>>

InitQuery ==
    /\ now = dt(MaxStampDay, 43200, 0)
    /\ \E p \in QueryPeriods :
           \/ data = [habits |-> QueryHabit(p), logs |-> <<>>]
           \/ \E entries \in QueryLogs :
                  data = [habits |-> QueryHabit(p),
                          logs |-> <<[key |-> "a", val |-> entries]>>]
    /\ Loaded

NextQuery ==
    \/ streaks
    \/ reminder

SpecQuery == InitQuery /\ [][NextQuery]_vars

(***************************************************************************)
(* The queries over the whole registry, on a document drawn from bounded   *)
(* sets: the habits of RegistryNames, any of them, in any order, each with *)
(* a periodicity and with no log entry or with a log of up to              *)
(* MaxRegistryLen timestamps; the log entries are in any order, that of    *)
(* the first check-ins.  The document is read on day ThirtyDays at noon.   *)
(* reminder: the timestamps are midnight of day 0 and midnight of          *)
(* tomorrow (a future date passed with --date).                            *)
(* summary: also noon of day 0, 30 days ago to the microsecond.            *)
(***************************************************************************)
RegistryStamps ==
    {isoformat(dt(0, 0, 0)), isoformat(dt(ThirtyDays + 1, 0, 0))}

SummaryStamps == RegistryStamps \cup {isoformat(dt(0, 43200, 0))}

RegistryLogs(stamps) == UNION {[1..k -> stamps] : k \in 0..MaxRegistryLen}

\* no log entry, or the log entry
RegistryLogOptions(stamps) ==
    {<<>>} \cup {<<entries>> : entries \in RegistryLogs(stamps)}

\* the orders the elements of a set can be in
Orderings(S) ==
    {order \in [1..Cardinality(S) -> S] :
        \A i, j \in 1..Cardinality(S) : i # j => order[i] # order[j]}

\* the orders in which habits of RegistryNames can be in the registry
RegistryOrders == UNION {Orderings(S) : S \in SUBSET RegistryNames}

\* the habits in the order they were added, the log entries in the order
\* logged, that of the first check-in of each habit
RegistryDocument(order, period, log, logged) ==
    [habits |-> [i \in 1..Len(order) |->
                    [key |-> order[i],
                     val |-> [periodicity |-> period[order[i]],
                              created_at |-> isoformat(dt(0, 0, 0))]]],
     logs |-> [i \in 1..Len(logged) |->
                    [key |-> logged[i], val |-> log[logged[i]][1]]]]

\* data is a document with periodicities of periods and timestamps of stamps
DrawnDocument(periods, stamps) ==
    \E order \in RegistryOrders :
        LET names == {order[i] : i \in 1..Len(order)}
        IN  \E period \in [names -> periods],
               log \in [names -> RegistryLogOptions(stamps)] :
                \E logged \in Orderings({name \in names : log[name] # <<>>}) :
                    data = RegistryDocument(order, period, log, logged)

InitRegistry ==
    /\ now = dt(ThirtyDays, 43200, 0)
    /\ DrawnDocument(QueryPeriods, RegistryStamps)
    /\ Loaded

NextRegistry == reminder

SpecRegistry == InitRegistry /\ [][NextRegistry]_vars

InitSummary ==
    /\ now = dt(ThirtyDays, 43200, 0)
    /\ DrawnDocument(Periods, SummaryStamps)
    /\ Loaded

NextSummary == summary

SpecSummary == InitSummary /\ [][NextSummary]_vars

(***************************************************************************)
(* streaks on the history of one habit "a", daily or weekly, drawn from    *)
(* bounded sets: its log holds one check-in, made with --date, for each    *)
(* day of any set of the days 0..MaxRunDay, logged in the order of the     *)
(* dates.                                                                  *)
(***************************************************************************)
\* the log of the days d for which checked[d] holds
RunLog(checked) ==
    LET days == SelectSeq([i \in 1..(MaxRunDay + 1) |-> i - 1], LAMBDA d : checked[d])
    IN  [i \in 1..Len(days) |-> LogStr(dt(MaxRunDay, 43200, 0), <<days[i]>>)]

InitRun ==
    /\ now = dt(MaxRunDay, 43200, 0)
    /\ \E p \in Periods, checked \in [0..MaxRunDay -> BOOLEAN] :
           data = [habits |-> QueryHabit(p),
                   logs |-> <<[key |-> "a", val |-> RunLog(checked)]>>]
    /\ Loaded

NextRun == streaks

SpecRun == InitRun /\ [][NextRun]_vars

(***************************************************************************)
(* The commands that change the document, fill among them, from the empty  *)
(* document.  The clock is read by the commands; fill moves it on.         *)
(***************************************************************************)
NextFill ==
    \/ add_habit
    \/ check_habit
    \/ delete_habit
    \/ fill
    \/ reset_all

SpecFill == InitCommands /\ [][NextFill]_vars

(***************************************************************************)
(* What the claims speak of                                                *)
(***************************************************************************)
\* the check-ins of a habit: none when it has no log entry
LogOf(d, name) == IF Has(d.logs, name) THEN Get(d.logs, name) ELSE <<>>

\* the calendar-date component of a logged timestamp
DateOf(entry) == entry[1]

\* the entries of a log whose calendar date is date, and the others
OnDate(entries, date) == SelectSeq(entries, LAMBDA e : DateOf(e) = date)

NotOnDate(entries, date) == SelectSeq(entries, LAMBDA e : DateOf(e) # date)

\* every habit but name keeps its record and its log
OthersUnchanged(name) ==
    \A m \in Names \ {name} :
        /\ InHabits(data', m) = InHabits(data, m)
        /\ InHabits(data, m) => Get(data'.habits, m) = Get(data.habits, m)
        /\ Has(data'.logs, m) = Has(data.logs, m)
        /\ LogOf(data', m) = LogOf(data, m)

\* the streak shown for name in the table streaks printed
StreakShown(name) ==
    LET i == CHOOSE i \in 1..Len(console.rows) : console.rows[i].name = name
    IN  console.rows[i].streak

StreaksShown == console.msg = "Habit Streaks"

ReminderShown ==
    console.msg \in {"You have pending habits to complete!", "All habits are up to date!"}

\* name is in the pending list reminder printed
ListedPending(name) ==
    \E i \in 1..Len(console.rows) : console.rows[i][1] = name

\* the calendar date of the latest check-in of a non-empty log
MostRecentDate(entries) ==
    CHOOSE d \in {DateOf(entries[i]) : i \in 1..Len(entries)} :
        \A i \in 1..Len(entries) : DateOf(entries[i]) <= d

\* the log holds exactly three check-ins, on three consecutive calendar days
ThreeConsecutiveDays(entries) ==
    /\ Len(entries) = 3
    /\ \E D \in 0..MaxStampDay :
           {DateOf(entries[i]) : i \in 1..3} = {D, D + 1, D + 2}

\* a's time of day is earlier than b's
EarlierInDay(a, b) == a[2] < b[2] \/ (a[2] = b[2] /\ fromisoformat(a).us < fromisoformat(b).us)

\* no check-in is at an earlier time of day than the check-in of the day before
NeverEarlierInDay(entries) ==
    \A i, j \in 1..Len(entries) :
        DateOf(entries[i]) = DateOf(entries[j]) + 1 => ~EarlierInDay(entries[i], entries[j])

\* the periodicity of the one habit of InitQuery
QueryPeriodicity == Get(data.habits, "a").periodicity

(***************************************************************************)
(* C1: delete_habit(name, date) on an existing habit removes exactly the   *)
(* check-ins of name whose calendar date is date, whatever their time of   *)
(* day, reports how many it removed, and leaves the other check-ins, the   *)
(* registry and the other logs as they were.                               *)
(* Violated: only the check-ins logged at 00:00:00 of date are removed.    *)
(***************************************************************************)
C1_DeleteByDateRemovesTheDate ==
    [][(now' = now /\ console'.msg = "Removed") =>
        LET name == console'.name
            date == console'.str[1]
            old == LogOf(data, name)
        IN  /\ LogOf(data', name) = NotOnDate(old, date)
            /\ console'.n = Len(OnDate(old, date))
            /\ data'.habits = data.habits
            /\ OthersUnchanged(name)]_vars

(***************************************************************************)
(* C2, as claimed: a daily habit whose log holds exactly three check-ins,  *)
(* on three consecutive calendar days, at any times of day, has streak 3.  *)
(* Violated: a check-in at an earlier time of day than the one of the day  *)
(* before is less than 24 hours after it, and stops the walk.              *)
(***************************************************************************)
C2_ThreeDaysAnyTimes ==
    (StreaksShown /\ QueryPeriodicity = "daily" /\ ThreeConsecutiveDays(LogOf(data, "a")))
        => StreakShown("a") = 3

(***************************************************************************)
(* C2, amended: a daily habit whose log holds exactly three check-ins, on  *)
(* three consecutive calendar days, has streak 3 exactly when no check-in  *)
(* is at an earlier time of day than the check-in of the day before.       *)
(***************************************************************************)
C2_ThreeDaysSameOrLaterTimes ==
    (StreaksShown /\ QueryPeriodicity = "daily" /\ ThreeConsecutiveDays(LogOf(data, "a")))
        => (StreakShown("a") = 3 <=> NeverEarlierInDay(LogOf(data, "a")))

C2_Witness ==
    /\ StreaksShown
    /\ QueryPeriodicity = "daily"
    /\ ThreeConsecutiveDays(LogOf(data, "a"))
    /\ \E i, j \in 1..3 : LogOf(data, "a")[i][2] # LogOf(data, "a")[j][2]
    /\ StreakShown("a") = 3

(***************************************************************************)
(* C3: a daily habit with a non-empty log is reported pending if and only  *)
(* if the calendar date of its most recent check-in is before today.       *)
(* Violated: the date compared is that of the check-in logged last, which  *)
(* is not the most recent one when an older date was logged after it.      *)
(***************************************************************************)
C3_DailyPendingIffLastCheckBeforeToday ==
    (ReminderShown /\ QueryPeriodicity = "daily" /\ LogOf(data, "a") # <<>>)
        => (ListedPending("a") <=> MostRecentDate(LogOf(data, "a")) < now.day)

(***************************************************************************)
(* C4: after a successful add_habit(name, periodicity) the registry holds  *)
(* a record for name and the log holds an entry for name, the empty list.  *)
(* Violated: add_habit writes the registry only.                           *)
(***************************************************************************)
C4_AddCreatesEmptyLog ==
    [][(now' = now /\ console'.msg = "added successfully!") =>
        /\ InHabits(data', console'.name)
        /\ Has(data'.logs, console'.name)
        /\ LogOf(data', console'.name) = <<>>]_vars

(***************************************************************************)
(* C5: streaks reports a streak of 0 for every habit of the registry that  *)
(* has no check-in, a habit added and never checked included.              *)
(* Violated: a habit with no log entry (C4) has no row in the table.       *)
(***************************************************************************)
C5_ZeroCheckinsStreakZero ==
    StreaksShown =>
        \A name \in Names :
            (InHabits(data, name) /\ LogOf(data, name) = <<>>) =>
                \E i \in 1..Len(console.rows) :
                    console.rows[i].name = name /\ console.rows[i].streak = 0

(***************************************************************************)
(* C6: in the walk of a weekly habit's check-ins from the most recent      *)
(* backward, a gap of exactly 7 whole days between two adjacent check-ins  *)
(* continues the streak and a gap of 8 whole days ends the walk.           *)
(***************************************************************************)
C6_WeeklyGapSevenContinuesEightBreaks ==
    (StreaksShown /\ QueryPeriodicity = "weekly" /\ LogOf(data, "a") # <<>>) =>
        LET sorted_logs == SortedLogs(LogOf(data, "a"))
        IN  \A i \in 1..(Len(sorted_logs) - 1) :
                \* the walk reaches the pair i, i + 1 when the streak got to i
                StreakShown("a") >= i =>
                    LET gap == TimedeltaDays(sorted_logs[i], sorted_logs[i + 1])
                    IN  /\ gap = 7 => StreakShown("a") >= i + 1
                        /\ gap = 8 => StreakShown("a") = i

C6_Witness ==
    /\ StreaksShown
    /\ QueryPeriodicity = "weekly"
    /\ Len(LogOf(data, "a")) = 3
    /\ LET sorted_logs == SortedLogs(LogOf(data, "a"))
       IN  /\ TimedeltaDays(sorted_logs[1], sorted_logs[2]) = 7
           /\ sorted_logs[1].sec # sorted_logs[2].sec
    /\ StreakShown("a") = 3

(***************************************************************************)
(* C7: add_habit on a name that is already in the registry reports that    *)
(* the habit exists and leaves its record (created_at, periodicity) and    *)
(* its log as they were, whatever periodicity is passed; nothing is        *)
(* written to the files.                                                   *)
(***************************************************************************)
C7_AddExistingChangesNothing ==
    [][(now' = now /\ console'.msg = "already exists!") =>
        LET name == console'.name
        IN  /\ InHabits(data, name) /\ InHabits(data', name)
            /\ Get(data'.habits, name) = Get(data.habits, name)
            /\ Has(data'.logs, name) = Has(data.logs, name)
            /\ LogOf(data', name) = LogOf(data, name)
            /\ disk' = disk]_vars

\* a second add, later than the first, of a habit that has check-ins
C7_Witness ==
    /\ console.msg = "already exists!"
    /\ InHabits(data, console.name)
    /\ Get(data.habits, console.name).created_at # isoformat(now)
    /\ LogOf(data, console.name) # <<>>

(***************************************************************************)
(* C8: delete_habit(name) without a date on an existing habit removes the  *)
(* record and the whole log entry of name in the same step, and leaves     *)
(* every other habit's record and log as they were; the data file holds    *)
(* the document so left.                                                   *)
(***************************************************************************)
C8_DeleteRemovesRecordAndLog ==
    [][(now' = now /\ console'.msg = "deleted entirely.") =>
        LET name == console'.name
        IN  /\ InHabits(data, name)
            /\ ~InHabits(data', name)
            /\ ~Has(data'.logs, name)
            /\ OthersUnchanged(name)
            /\ LoadData(disk', tracker.DATA_FILE) = data']_vars

\* a habit was deleted while another one, with check-ins, stays
C8_Witness ==
    /\ console.msg = "deleted entirely."
    /\ ~InHabits(data, console.name)
    /\ ~Has(data.logs, console.name)
    /\ \E m \in Names : InHabits(data, m) /\ LogOf(data, m) # <<>>

(***************************************************************************)
(* C9: a successful check_habit(name, date?) appends exactly one timestamp *)
(* to the log of name and keeps the earlier entries, also when the same    *)
(* date is already logged; no other log and no record changes, and the     *)
(* data file holds the document so left.                                   *)
(***************************************************************************)
C9_CheckAppendsOne ==
    [][(now' = now /\ console'.msg = "Checked off") =>
        LET name == console'.name
            old == LogOf(data, name)
        IN  /\ InHabits(data, name)
            /\ Has(data'.logs, name)
            /\ Len(LogOf(data', name)) = Len(old) + 1
            /\ LogOf(data', name) = Append(old, console'.str)
            /\ console'.str \in {isoformat(now)} \cup
                   {isoformat(strptime(s)) : s \in {x \in DateArgs : Len(x) = 1}}
            /\ data'.habits = data.habits
            /\ OthersUnchanged(name)
            /\ LoadData(disk', tracker.DATA_FILE) = data']_vars

\* the date just logged is one already in the log: both are kept
C9_Witness ==
    /\ console.msg = "Checked off"
    /\ console.str \in {isoformat(strptime(s)) : s \in {x \in DateArgs : Len(x) = 1}}
    /\ LET entries == LogOf(data, console.name)
       IN  /\ Len(entries) >= 2
           /\ entries[Len(entries)] = console.str
           /\ entries[Len(entries) - 1] = console.str

(***************************************************************************)
(* C10: a weekly habit with a non-empty log is reported pending if and     *)
(* only if today is more than 7 days after the date of its last check-in;  *)
(* a last check-in exactly 7 days ago is not pending.                      *)
(* Violated as C3 is: the date compared is that of the entry logged last.  *)
(***************************************************************************)
C10_WeeklyPendingIffMoreThanSevenDays ==
    (ReminderShown /\ QueryPeriodicity = "weekly" /\ LogOf(data, "a") # <<>>)
        => (ListedPending("a") <=> now.day - MostRecentDate(LogOf(data, "a")) > 7)


\* the names of the registry, in its order
RegistryOrder(d) == [i \in 1..Len(d.habits) |-> d.habits[i].key]

\* the names of the rows of a list of (name, ...) tuples, in its order
RowNames(rows) == [i \in 1..Len(rows) |-> rows[i][1]]

(***************************************************************************)
(* C11: the pending list holds every habit of the registry that has no log *)
(* entry or an empty log, whatever its periodicity; it never holds a habit *)
(* with at least one check-in whose periodicity is neither daily nor       *)
(* weekly; and it is in the order of the registry.                         *)
(***************************************************************************)
C11_PendingWithoutCheckinsInRegistryOrder ==
    ReminderShown =>
        /\ \A i \in 1..Len(data.habits) :
               LET name == data.habits[i].key
                   period == data.habits[i].val.periodicity
               IN  /\ LogOf(data, name) = <<>> => ListedPending(name)
                   /\ (LogOf(data, name) # <<>> /\ period \notin {"daily", "weekly"})
                          => ~ListedPending(name)
        /\ RowNames(console.rows) =
               SelectSeq(RegistryOrder(data), LAMBDA name : ListedPending(name))

\* a monthly habit with a check-in, then a monthly habit with no log entry,
\* then a weekly habit with an empty log: the last two are listed, in order
C11_Witness ==
    /\ ReminderShown
    /\ Len(data.habits) = 3
    /\ data.habits[1].val.periodicity = "monthly"
    /\ LogOf(data, data.habits[1].key) # <<>>
    /\ data.habits[2].val.periodicity = "monthly"
    /\ ~Has(data.logs, data.habits[2].key)
    /\ data.habits[3].val.periodicity = "weekly"
    /\ Has(data.logs, data.habits[3].key)
    /\ LogOf(data, data.habits[3].key) = <<>>
    /\ data.habits[2].key = "a"
    /\ RowNames(console.rows) = <<data.habits[2].key, data.habits[3].key>>

\* the check-ins of name in document d whose instant is not before 30 days
\* before the instant t
Count30(d, t, name) ==
    LET entries == LogOf(d, name)
        counted(e) ==
            \/ e.day > t.day - ThirtyDays
            \/ /\ e.day = t.day - ThirtyDays
               /\ \/ e.sec > t.sec
                  \/ e.sec = t.sec /\ e.us >= t.us
    IN  Cardinality({i \in 1..Len(entries) : counted(fromisoformat(entries[i]))})

\* the habits of document d whose count at the instant t is the least of
\* the registry, with that count, in the order of the registry
LeastCounted(d, t) ==
    LET counts == {Count30(d, t, d.habits[i].key) : i \in 1..Len(d.habits)}
        min == CHOOSE m \in counts : \A c \in counts : m <= c
        least == SelectSeq(d.habits, LAMBDA h : Count30(d, t, h.key) = min)
    IN  [i \in 1..Len(least) |-> <<least[i].key, min>>]

(***************************************************************************)
(* C12: with at least one habit in the registry, the habits summary lists  *)
(* as struggled with are exactly those whose count of check-ins of the     *)
(* last 30 days (timestamp >= now - 30 days, future timestamps included)   *)
(* is the minimum over the registry: every habit at the minimum, none      *)
(* above it, in the order of the registry; now is an instant of the        *)
(* command, from its start to its last reading of the clock.               *)
(* Violated: summary reads the clock anew for each habit, and a check-in   *)
(* made 30 days ago to the microsecond counts for a habit counted at that  *)
(* microsecond and not for a habit counted after it, so that the list is   *)
(* the one of no instant.                                                  *)
(***************************************************************************)
C12_StruggledAreTheMinimumInRegistryOrder ==
    [][(console'.msg = "Habit Tracker Summary" /\ Len(data.habits) > 0) =>
        \E t \in {t \in SummaryInstants : ~DtLess(t, now) /\ ~DtLess(now', t)} :
            console'.rows = LeastCounted(data, t)]_vars

\* the calendar dates of the check-ins of a log
DatesOf(entries) == {DateOf(entries[i]) : i \in 1..Len(entries)}

\* the date of the check-in before the one of date y
DateBefore(dates, y) ==
    CHOOSE z \in dates : z < y /\ \A w \in dates : w < y => w <= z

\* the check-in of date y follows the one before it as the periodicity asks
FollowsOn(period, dates, y) ==
    \/ period = "daily" /\ y - DateBefore(dates, y) = 1
    \/ period = "weekly" /\ y - DateBefore(dates, y) <= 7

\* the dates of the run that ends at the most recent check-in: those from
\* which every later check-in follows on the one before it
LatestRun(period, dates) ==
    {x \in dates : \A y \in dates : y > x => FollowsOn(period, dates, y)}

(***************************************************************************)
(* C13: the streak is the length of the one run of check-ins that ends at  *)
(* the most recent check-in, not that of the longest run of the history:   *)
(* a daily habit checked on 10 consecutive days, not on the next, then on  *)
(* 5 consecutive days has streak 5.  The check-ins before the first gap    *)
(* that does not match have no part in it.                                 *)
(***************************************************************************)
C13_StreakIsTheRunEndingAtTheLatest ==
    StreaksShown =>
        StreakShown("a") =
            Cardinality(LatestRun(QueryPeriodicity, DatesOf(LogOf(data, "a"))))

\* days 0..9 checked, day 10 missed, days 11..15 checked
C13_Witness ==
    /\ StreaksShown
    /\ QueryPeriodicity = "daily"
    /\ DatesOf(LogOf(data, "a")) = (0..9) \cup (11..15)
    /\ Len(LogOf(data, "a")) = 15
    /\ StreakShown("a") = 5


\* the streak of the habit of registry entry h
StreakOfHabit(h) == Streak(h.val.periodicity, LogOf(data, h.key))

\* the greatest streak over the registry; 0 for an empty registry
MaxStreak ==
    LET all == {StreakOfHabit(data.habits[i]) : i \in 1..Len(data.habits)} \cup {0}
    IN  CHOOSE m \in all : \A s \in all : s <= m

(***************************************************************************)
(* C14: the longest streak streaks reports is the greatest streak over the *)
(* habits of the registry, and the habit it names is the first one, in the *)
(* order of the registry, whose streak is that greatest one.               *)
(* Violated: streaks walks the log, whose order is that of the first       *)
(* check-ins because add_habit creates no log entry (C4); of two habits    *)
(* with the same streak it names the one first checked, not the one first  *)
(* added.                                                                  *)
(***************************************************************************)
C14_LongestStreakFirstInRegistryOrder ==
    StreaksShown =>
        /\ console.n = MaxStreak
        /\ console.name # "" =>
               LET first == CHOOSE i \in 1..Len(data.habits) :
                       /\ StreakOfHabit(data.habits[i]) = MaxStreak
                       /\ \A j \in 1..(i - 1) :
                              StreakOfHabit(data.habits[j]) # MaxStreak
               IN  console.name = data.habits[first].key


\* the messages of the operations that fail
FailureMessages ==
    {"Error: Missing 'name' or 'periodicity'.", "not found!",
     "Invalid date format. Use YYYY-MM-DD."}

(***************************************************************************)
(* C15: an operation that fails leaves the whole document as it was:       *)
(* add_habit with an empty name or periodicity, check_habit and            *)
(* delete_habit on a name that is not in the registry, check_habit and     *)
(* delete_habit with a date that does not parse.  It prints its message    *)
(* and returns, and the next command runs; the files are as they were.     *)
(***************************************************************************)
C15_FailedOperationChangesNothing ==
    [][(now' = now /\ console'.msg \in FailureMessages) =>
        data' = data /\ disk' = disk]_vars

\* a date that does not parse was refused while the document holds a habit
\* with a check-in and a habit with no log entry
C15_Witness ==
    /\ console.msg = "Invalid date format. Use YYYY-MM-DD."
    /\ \E m \in Names : InHabits(data, m) /\ LogOf(data, m) # <<>>
    /\ \E m \in Names : InHabits(data, m) /\ ~Has(data.logs, m)


\* the logs that hold the entries of a log in another order; a check-in
\* stamped by the clock is never logged before an earlier one
Reorderings(entries) ==
    LET n == Len(entries)
        orders == {f \in [1..n -> 1..n] : \A i, j \in 1..n : i # j => f[i] # f[j]}
    IN  {e \in {[i \in 1..n |-> entries[f[i]]] : f \in orders} : ClockOrdered(e)}

\* the document with the log of "a" replaced
WithLogOfA(entries) == [data EXCEPT !.logs = Put(@, "a", entries)]

(***************************************************************************)
(* C16: the order in which check-ins were logged has no effect: for a log  *)
(* holding the same timestamps in another order the streak, the pending    *)
(* list and the count of the last 30 days are the same.                    *)
(* Violated by the pending list: it reads the entry logged last (the bug   *)
(* of C3 and C10).  The streak and the count do not depend on the order.   *)
(***************************************************************************)
C16_LogOrderIrrelevant ==
    Has(data.logs, "a") =>
        \A entries \in Reorderings(LogOf(data, "a")) :
            /\ StreaksShown => StreakShown("a") = Streak(QueryPeriodicity, entries)
            /\ ReminderShown =>
                   (ListedPending("a") <=>
                        get_pending_habits(WithLogOfA(entries), now) # <<>>)
            /\ calc_30days_checkins(data, now, "a") =
                   calc_30days_checkins(WithLogOfA(entries), now, "a")


\* the time from instant b to the later instant a, in whole days: the
\* seconds between them, less one when a's microsecond is the smaller,
\* divided by the seconds of a day
WholeDaysBetween(a, b) ==
    LET seconds == (a.day - b.day) * 86400 + (a.sec - b.sec)
    IN  (IF a.us < b.us THEN seconds - 1 ELSE seconds) \div 86400

(***************************************************************************)
(* C17: the gap between two adjacent check-ins is the difference of the    *)
(* two instants cut down to whole days, not the difference of the calendar *)
(* dates.  For a daily habit a gap of exactly 1 extends the streak; a gap  *)
(* of 0 (check-ins less than 24 hours apart, also on consecutive dates)    *)
(* or of 2 and more ends the walk.                                         *)
(***************************************************************************)
C17_DailyGapOfOneWholeDayOnly ==
    (StreaksShown /\ QueryPeriodicity = "daily" /\ LogOf(data, "a") # <<>>) =>
        LET sorted_logs == SortedLogs(LogOf(data, "a"))
        IN  \A i \in 1..(Len(sorted_logs) - 1) :
                \* the walk reaches the pair i, i + 1 when the streak got to i
                StreakShown("a") >= i =>
                    LET gap == WholeDaysBetween(sorted_logs[i], sorted_logs[i + 1])
                    IN  /\ gap = 1 => StreakShown("a") >= i + 1
                        /\ gap # 1 => StreakShown("a") = i

\* midnight of a day, midnight of the day before, noon of the day before
\* that: the first gap is 1, the second is half a day on consecutive dates
C17_Witness ==
    /\ StreaksShown
    /\ QueryPeriodicity = "daily"
    /\ Len(LogOf(data, "a")) = 3
    /\ LET sorted_logs == SortedLogs(LogOf(data, "a"))
       IN  /\ sorted_logs[1].day = sorted_logs[2].day + 1
           /\ sorted_logs[1].sec = sorted_logs[2].sec
           /\ sorted_logs[2].day = sorted_logs[3].day + 1
           /\ sorted_logs[2].sec < sorted_logs[3].sec
    /\ StreakShown("a") = 2


(***************************************************************************)
(* C18: from the empty document, after any sequence of add, check, delete  *)
(* (with or without a date), fill and reset, every key of the log is a key *)
(* of the registry: there is no log without its habit.                     *)
(***************************************************************************)
C18_NoOrphanLogs ==
    \A i \in 1..Len(data.logs) : InHabits(data, data.logs[i].key)

\* fill stopped at a habit that has no log entry, after it had added the
\* sample habits and filled the log of the first of them
C18_Witness ==
    /\ console.msg = "Error filling data:"
    /\ ~Has(data.logs, console.name)
    /\ InHabits(data, SampleHabits[1][1])
    /\ Len(LogOf(data, SampleHabits[1][1])) \in
           {draw.random_days[1] : draw \in RandomDraws}


(***************************************************************************)
(* C19: a habit deleted without a date and added again under the same name *)
(* starts fresh: from the second add to the next check of that name its    *)
(* log holds no check-in of before the deletion, so that its streak is 0   *)
(* and it is listed as pending.  Stated for the state the second add       *)
(* leaves, with what streaks and reminder print in it.                     *)
(* Violated: the log holds nothing of before the deletion and the habit is *)
(* listed as pending, but it has no log entry (C4) and streaks prints no   *)
(* row, hence no streak of 0, for it.                                      *)
(***************************************************************************)
C19_ReAddedHabitStartsFresh ==
    [][(/\ now' = now
        /\ console.msg = "deleted entirely."
        /\ console'.msg = "added successfully!"
        /\ console'.name = console.name) =>
        LET name == console'.name
            rows == StreaksReport(data').rows
            pending_list == get_pending_habits(data', now')
        IN  /\ LogOf(data', name) = <<>>
            /\ \E i \in 1..Len(pending_list) : pending_list[i][1] = name
            /\ \E i \in 1..Len(rows) : rows[i].name = name /\ rows[i].streak = 0]_vars

====
